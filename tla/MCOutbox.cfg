SPECIFICATION FramingSpec
CONSTANTS
    a = a
    b = b
    big = big
    alien = alien
    hollow = hollow
    Msg = {a, b, big}
    TooLarge = {big}
    Garbled = {alien}
    ZeroLength = {hollow}
    Capacity = 2
    HighWater = 3
    MaxSends = 3
INVARIANTS
    FramingTypeOK
    DecodesWhatWasSent
PROPERTIES
    ImplementsChannel
    WriteErrorEndsSession
    CleanEndDecodes
