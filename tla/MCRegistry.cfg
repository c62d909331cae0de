SPECIFICATION RegistrySpec
CONSTANTS
    s1 = s1
    s2 = s2
    s3 = s3
    alice = alice
    bob = bob
    Session = {s1, s2, s3}
    User = {alice, bob}
    NoUser = NoUser
    NoSession = NoSession
SYMMETRY Symmetry
INVARIANTS
    RegistryTypeOK
    OneLiveSessionPerUser
PROPERTY KickOnlyDuplicates
