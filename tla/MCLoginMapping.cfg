SPECIFICATION Spec
CONSTANTS
    s1 = s1
    s2 = s2
    alice = alice
    bob = bob
    Session = {s1}
    User = {alice, bob}
    Bannable = {}
    NoUser = NoUser
    NoSession = NoSession
    SendQueueSize = 1
    Permits = 1
    MaxLogins = 2
INVARIANT MappingReleased
