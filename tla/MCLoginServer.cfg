SPECIFICATION Spec
CONSTANTS
    s1 = s1
    s2 = s2
    alice = alice
    bob = bob
    Session = {s1, s2}
    User = {alice}
    Bannable = {alice}
    NoUser = NoUser
    NoSession = NoSession
    SendQueueSize = 1
    Permits = 1
    MaxLogins = 2
SYMMETRY Symmetry
INVARIANTS
    LoginTypeOK
    PermitsConserved
PROPERTY
    BanLetsNobodyNewIn
