SPECIFICATION FairSpec
CONSTANTS
    s1 = s1
    s2 = s2
    alice = alice
    bob = bob
    ta = ta
    ta2 = ta2
    tb = tb
    Session = {s1, s2}
    User = {alice}
    Token = {ta}
    NoUser = NoUser
    NoSession = NoSession
    NoToken = NoToken
    Owner <- MCOwner
    SendQueueSize = 1
    MaxJobs <- OneTake
PROPERTIES
    ShutdownCompletes
    KickedSessionEnds
    LogoutEventuallyRecorded
