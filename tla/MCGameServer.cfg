SPECIFICATION Spec
CONSTANTS
    s1 = s1
    s2 = s2
    alice = alice
    bob = bob
    ta = ta
    ta2 = ta2
    tb = tb
    Session = {s1, s2}
    User = {alice, bob}
    Token = {ta, ta2, tb}
    NoUser = NoUser
    NoSession = NoSession
    NoToken = NoToken
    Owner <- MCOwner
    SendQueueSize = 1
    MaxJobs <- TakesAndSave
SYMMETRY Symmetry
INVARIANTS
    GameTypeOK
    DirectoryMatchesTasks
    OneActiveSession
    TokenSingleUse
    ExitIsClean
    LogoutRecorded
PROPERTY UsesRegistry
