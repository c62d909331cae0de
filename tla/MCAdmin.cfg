SPECIFICATION Spec
CONSTANTS
    r1 = r1
    r2 = r2
    k1 = k1
    none = none
    Request = {r1, r2}
    Key = {k1}
    NoKey = none
    TTL = 2
    MinDelay = 1
    MaxDelay = 3
INVARIANTS
    ProcessTypeOK
    DeadKeyRefused
PROPERTIES
    LostKeyDies
    MainReturns
    SubscriberRecovers
